---- MODULE Spec2Model ----
(***************************************************************************)
(* Model of src/ml/server.py: the Flask endpoint POST /analyze and the     *)
(* functions it is made of (build_graphs, detect_communities,              *)
(* compute_pagerank, detect_hubs, detect_anomalies and the evaluate_*      *)
(* functions).                                                             *)
(*                                                                         *)
(* Python dicts are functions whose domain is the set of keys that are     *)
(* present, so a record without "id" really has no "id" in its DOMAIN and  *)
(* d["id"] on it raises KeyError.  NetworkX graphs are a node sequence in  *)
(* insertion order plus a weight function on the edges.  Floats that are   *)
(* quotients of integers are kept as exact fractions <<num, den>> or as    *)
(* fixed-point integers after rounding.                                    *)
(***************************************************************************)
EXTENDS Integers, Sequences, FiniteSets, TLC

VARIABLES
    pc,             \* "idle", "received", "responded", or "returned" (from a direct call)
    called,         \* the function that was called
    data,           \* the JSON payload of the request
    nodes,          \* the node list of the request / of the call
    edges,          \* the edge list of the request / of the call
    G_undirected,   \* local of analyze / argument of the call
    G_directed,     \* local of analyze / argument of the call
    node_map,       \* local of analyze
    communities,    \* result of detect_communities
    pagerank,       \* result of compute_pagerank
    hubs,           \* result of detect_hubs
    lib,            \* what the library calls did: louvain, nx.pagerank, IsolationForest
    exception,      \* str(e) of the exception raised, "" when there was none
    response        \* what analyze returned: [status, body]

vars == <<pc, called, data, nodes, edges, G_undirected, G_directed, node_map,
          communities, pagerank, hubs, lib, exception, response>>

----------------------------------------------------------------------------
(* Bounds of the model *)

MaxNodes == 3       \* longest node list of a request to /analyze
MaxEdges == 1       \* longest edge list of a request to /analyze
MaxFnNodes == 1     \* longest node list handed to build_graphs directly
MaxFnEdges == 2     \* longest edge list handed to a function directly
MaxGraphNodes == 4  \* most declared nodes of a graph handed to a detector directly
MaxHubNodes == 11   \* most declared nodes of a graph handed to detect_hubs directly

----------------------------------------------------------------------------
(* Python values *)

\* the node identifiers of the requests
Ids == 1..3

\* the raw PageRank scores, in units of the smallest positive one
RawScores == 0..2

\* what a local that is not bound holds: nothing
Unset == <<>>

\* no function is being called
NoCall == "none"

\* d.get(k, default)
Get(d, k, default) == IF k \in DOMAIN d THEN d[k] ELSE default

\* the empty dict {}
EmptyDict == [k \in {} |-> 0]

\* d[k] = v
DictSet(d, k, v) == [x \in (DOMAIN d) \cup {k} |-> IF x = k THEN v ELSE d[x]]

SeqsUpTo(S, n) == UNION {[1..k -> S] : k \in 0..n}

Range(s) == {s[i] : i \in DOMAIN s}

\* a well-formed node record, and one without "id"
\* (labels are opaque strings: 100 + i stands for the label of node i)
Node(i) ==
    [id |-> i, label |-> 100 + i,
     type |-> IF i % 2 = 1 THEN "editor" ELSE "article", editCount |-> 3 * i]
AnonNode == [label |-> 100]
NodeRecordsOver(I) == {Node(i) : i \in I} \cup {AnonNode}

Views == {"bipartite", "coedit", "other"}

\* edge records between the nodes of I: "weight" (here 2, the default being 1)
\* and "view" are optional
WellFormedEdges(I) ==
    {[source |-> s, target |-> t] : s \in I, t \in I}
    \cup {[source |-> s, target |-> t, weight |-> 2] : s \in I, t \in I}
    \cup {[source |-> s, target |-> t, view |-> v] : s \in I, t \in I, v \in Views}
    \cup {[source |-> s, target |-> t, weight |-> 2, view |-> v] :
             s \in I, t \in I, v \in Views}

\* records without "source" or without "target"
MalformedEdges == {[source |-> 1], [target |-> 2]}

----------------------------------------------------------------------------
(* NetworkX graphs *)

\* nx.Graph() / nx.DiGraph(): no nodes, no edges
EmptyGraph == [nodes |-> <<>>, weight |-> EmptyDict]

NodeSet(G) == Range(G.nodes)

\* G.add_node(n): a node already present keeps its place
add_node(G, n) ==
    IF n \in NodeSet(G) THEN G ELSE [G EXCEPT !.nodes = Append(@, n)]

\* the key of the edge u-v of an undirected graph, and of u->v of a digraph
UKey(u, v) == {u, v}
DKey(u, v) == <<u, v>>

\* G.has_edge(u, v), by key
has_edge(G, k) == k \in DOMAIN G.weight

\* G.add_edge(u, v, weight=w): adds u and v when they are not nodes yet
add_edge(G, u, v, k, w) ==
    LET G1 == add_node(add_node(G, u), v)
    IN  [G1 EXCEPT !.weight = DictSet(@, k, w)]

\* G.degree(n) of an undirected graph: a self-loop counts twice
degree(G, n) ==
    Cardinality({k \in DOMAIN G.weight : n \in k /\ Cardinality(k) = 2})
    + (IF {n} \in DOMAIN G.weight THEN 2 ELSE 0)

number_of_nodes(G) == Len(G.nodes)
number_of_edges(G) == Cardinality(DOMAIN G.weight)

----------------------------------------------------------------------------
(* build_graphs *)

\* (variant: the node is not added to the directed view)
DeclareNode_UndirectedOnly(st, n) ==
    [st EXCEPT !.node_map = DictSet(@, n["id"], n),
               !.G_undirected = add_node(@, n["id"])]

\* the body of the loop over the node list: the node goes into node_map and
\* into both views
DeclareNode(st, n) ==
    [st EXCEPT !.node_map = DictSet(@, n["id"], n),
               !.G_undirected = add_node(@, n["id"]),
               !.G_directed = add_node(@, n["id"])]

\* the loop over the node list; n["id"] raises KeyError on a record without it
RECURSIVE AddNodes(_, _)
AddNodes(st, ns) ==
    IF ns = <<>> \/ st.raised THEN st
    ELSE LET n == Head(ns) IN
         IF "id" \notin DOMAIN n
         THEN [st EXCEPT !.raised = TRUE, !.error = "'id'"]
         ELSE AddNodes(DeclareNode(st, n), Tail(ns))

\* (variant: a repeated edge overwrites the weight instead of adding to it)
AddUndirected_Overwrite(G, src, tgt, w, view) ==
    IF view \in {"bipartite", "coedit"}
    THEN add_edge(G, src, tgt, UKey(src, tgt), w)
    ELSE G

\* the undirected view gets bipartite and coedit edges, weights accumulate
AddUndirected(G, src, tgt, w, view) ==
    IF view \in {"bipartite", "coedit"}
    THEN IF has_edge(G, UKey(src, tgt))
         THEN [G EXCEPT !.weight[UKey(src, tgt)] = @ + w]
         ELSE add_edge(G, src, tgt, UKey(src, tgt), w)
    ELSE G

\* (variant: the reverse edge is forgotten)
AddDirected_OneWay(G, src, tgt, w, view) ==
    IF view = "bipartite" /\ ~has_edge(G, DKey(src, tgt))
    THEN add_edge(G, src, tgt, DKey(src, tgt), w)
    ELSE G

\* the directed view gets bipartite edges in both directions, first weight kept
AddDirected(G, src, tgt, w, view) ==
    IF view = "bipartite"
    THEN LET G1 == IF ~has_edge(G, DKey(src, tgt))
                   THEN add_edge(G, src, tgt, DKey(src, tgt), w) ELSE G
         IN  IF ~has_edge(G1, DKey(tgt, src))
             THEN add_edge(G1, tgt, src, DKey(tgt, src), w) ELSE G1
    ELSE G

\* the loop over the edge list; e["source"], e["target"] raise KeyError
RECURSIVE AddEdges(_, _)
AddEdges(st, es) ==
    IF es = <<>> \/ st.raised THEN st
    ELSE LET e == Head(es) IN
         IF "source" \notin DOMAIN e
         THEN [st EXCEPT !.raised = TRUE, !.error = "'source'"]
         ELSE IF "target" \notin DOMAIN e
         THEN [st EXCEPT !.raised = TRUE, !.error = "'target'"]
         ELSE LET src == e["source"]
                  tgt == e["target"]
                  w == Get(e, "weight", 1)
                  view == Get(e, "view", "bipartite")
              IN  AddEdges([st EXCEPT
                               !.G_undirected = AddUndirected(@, src, tgt, w, view),
                               !.G_directed = AddDirected(@, src, tgt, w, view)],
                           Tail(es))

\* build_graphs(nodes, edges): [raised, error, G_undirected, G_directed, node_map];
\* error is str(e) of the KeyError raised
build_graphs(ns, es) ==
    AddEdges(AddNodes([raised |-> FALSE, error |-> "",
                       G_undirected |-> EmptyGraph, G_directed |-> EmptyGraph,
                       node_map |-> EmptyDict], ns), es)

----------------------------------------------------------------------------
(* Integer helpers *)

Max(a, b) == IF a >= b THEN a ELSE b
Min(a, b) == IF a <= b THEN a ELSE b

RECURSIVE SumSeq(_)
SumSeq(s) == IF s = <<>> THEN 0 ELSE Head(s) + SumSeq(Tail(s))

\* F(v), with v evaluated once
Bind(v, F(_)) == CHOOSE y \in {F(x) : x \in {v}} : TRUE

\* the elements of a set, in some order
RECURSIVE SetToSeq(_)
SetToSeq(S) ==
    IF S = {} THEN <<>>
    ELSE LET x == CHOOSE y \in S : TRUE IN <<x>> \o SetToSeq(S \ {x})

\* sum(F(x) for x in S)
SumOver(S, F(_)) ==
    LET s == SetToSeq(S) IN SumSeq([i \in 1..Len(s) |-> F(s[i])])

\* round(a / b) for a >= 0, b > 0, a tie going to the even neighbour, which is
\* what round() does with a quotient that is exact in binary
RoundDivPos(a, b) ==
    LET q == a \div b
        r == a % b
    IN  IF 2 * r < b THEN q
        ELSE IF 2 * r > b THEN q + 1
        ELSE IF q % 2 = 0 THEN q ELSE q + 1

\* round(a / b) for any a and b > 0
RoundDiv(a, b) == IF a >= 0 THEN RoundDivPos(a, b) ELSE 0 - RoundDivPos(0 - a, b)

\* int(np.ceil(n * 0.1)): the double n * 0.1 never passes the next integer, so
\* this is the integer ceiling of n / 10
Ceil10(n) == (n + 9) \div 10

----------------------------------------------------------------------------
(* detect_communities *)

\* [n for n in G.nodes() if G.degree(n) > 0]
connected_nodes(G) == SelectSeq(G.nodes, LAMBDA n : degree(G, n) > 0)

\* louvain_communities is called only past the two early returns
LouvainCalled(G) == number_of_nodes(G) >= 2 /\ Len(connected_nodes(G)) >= 2

\* What louvain_communities(G_connected, ...) can do: raise, or return a list of
\* non-empty disjoint sets that cover the nodes of G_connected.
LouvainLists(S) ==
    {[i \in 1..Cardinality({f[n] : n \in S}) |-> {n \in S : f[n] = i}] :
        f \in {g \in [S -> 1..Cardinality(S)] :
                  {g[n] : n \in S} = 1..Cardinality({g[n] : n \in S})}}

LouvainOutcomes(G) ==
    IF ~LouvainCalled(G) THEN {[called |-> FALSE, raised |-> FALSE, list |-> <<>>]}
    ELSE {[called |-> TRUE, raised |-> TRUE, list |-> <<>>]}
         \cup {[called |-> TRUE, raised |-> FALSE, list |-> l] :
                  l \in LouvainLists(Range(connected_nodes(G)))}

\* {n: 0 for n in G.nodes()}
AllZeroLabels(G) == [n \in NodeSet(G) |-> 0]

\* (variant: the fallback labels every node 0)
SingletonLabels_Zero(G) == [n \in NodeSet(G) |-> 0]

\* {n: i for i, n in enumerate(G.nodes())}
SingletonLabels(G) ==
    [n \in NodeSet(G) |-> (CHOOSE i \in 1..Len(G.nodes) : G.nodes[i] = n) - 1]

\* (variant: the catch-all label is the last community's, not one past it)
MergedLabels_LastId(G, communities_list) ==
    LET next_id == Len(communities_list) - 1
        Ids_of(n) == {i \in 1..Len(communities_list) : n \in communities_list[i]}
    IN  [n \in NodeSet(G) |->
            IF Ids_of(n) # {}
            THEN (CHOOSE i \in Ids_of(n) : \A j \in Ids_of(n) : j <= i) - 1
            ELSE next_id]

\* the two loops after a successful detection: a node of communities_list[i]
\* gets comm_id i (the last one written), every other node gets next_id
MergedLabels(G, communities_list) ==
    LET next_id == Len(communities_list)
        Ids_of(n) == {i \in 1..Len(communities_list) : n \in communities_list[i]}
    IN  [n \in NodeSet(G) |->
            IF Ids_of(n) # {}
            THEN (CHOOSE i \in Ids_of(n) : \A j \in Ids_of(n) : j <= i) - 1
            ELSE next_id]

\* detect_communities(G), louv being what louvain_communities did
detect_communities(G, louv) ==
    IF number_of_nodes(G) < 2 THEN AllZeroLabels(G)
    ELSE IF Len(connected_nodes(G)) < 2 THEN AllZeroLabels(G)
    ELSE IF louv.raised THEN SingletonLabels(G)
    ELSE MergedLabels(G, louv.list)

----------------------------------------------------------------------------
(* compute_pagerank *)

\* a score is the fraction <<num, den>>; the integers 0 and the raw score v are
\* <<0, 1>> and <<v, 1>>
Frac(a, b) == <<a, b>>

\* nx.pagerank is called unless the graph has no nodes
PagerankCalled(G) == number_of_nodes(G) # 0

\* What nx.pagerank can do: raise (PowerIterationFailedConvergence), or return
\* a raw score for every node.
PagerankOutcomes(G) ==
    IF ~PagerankCalled(G) THEN {[called |-> FALSE, raised |-> FALSE, pr |-> EmptyDict]}
    ELSE {[called |-> TRUE, raised |-> TRUE, pr |-> EmptyDict]}
         \cup {[called |-> TRUE, raised |-> FALSE, pr |-> p] :
                  p \in [NodeSet(G) -> RawScores]}

\* max(pr.values()) if pr else 1
MaxValue(pr) ==
    IF DOMAIN pr = {} THEN 1
    ELSE CHOOSE m \in {pr[k] : k \in DOMAIN pr} : \A k \in DOMAIN pr : pr[k] <= m

\* (variant: the scores are divided by their sum)
Normalize_BySum(pr) ==
    LET total == SumOver(DOMAIN pr, LAMBDA k : pr[k])
    IN  IF total > 0 THEN [k \in DOMAIN pr |-> Frac(pr[k], total)]
        ELSE [k \in DOMAIN pr |-> Frac(pr[k], 1)]

\* the normalisation: every score divided by the largest, when that is positive
Normalize(pr) ==
    LET max_pr == MaxValue(pr)
    IN  IF max_pr > 0 THEN [k \in DOMAIN pr |-> Frac(pr[k], max_pr)]
        ELSE [k \in DOMAIN pr |-> Frac(pr[k], 1)]

\* compute_pagerank(G_directed), out being what nx.pagerank did
compute_pagerank(G, out) ==
    IF number_of_nodes(G) = 0 THEN EmptyDict
    ELSE IF out.raised THEN [n \in NodeSet(G) |-> Frac(0, 1)]
    ELSE Normalize(out.pr)

----------------------------------------------------------------------------
(* detect_hubs *)

\* nx.degree_centrality(G): 1 for every node of a graph of at most one node,
\* else degree / (n - 1); kept as <<id, <<num, den>>>> in node order
degree_centrality(G) ==
    [i \in 1..Len(G.nodes) |->
        <<G.nodes[i],
          IF Len(G.nodes) <= 1 THEN Frac(1, 1)
          ELSE Frac(degree(G, G.nodes[i]), Len(G.nodes) - 1)>>]

\* x[1] >= y[1] on centrality items
CentralityGe(a, b) == a[2][1] * b[2][2] >= b[2][1] * a[2][2]

\* sorted(centrality.items(), key=lambda x: x[1], reverse=True): the sort is
\* stable, so items of equal centrality keep their order
RECURSIVE InsertDesc(_, _)
InsertDesc(s, x) ==
    IF s = <<>> THEN <<x>>
    ELSE IF CentralityGe(Head(s), x) THEN <<Head(s)>> \o InsertDesc(Tail(s), x)
    ELSE <<x>> \o s

RECURSIVE SortDesc(_)
SortDesc(s) ==
    IF s = <<>> THEN <<>>
    ELSE InsertDesc(SortDesc(SubSeq(s, 1, Len(s) - 1)), s[Len(s)])

\* (variant: the tenth is rounded down)
hub_count_Floor(n) == Max(1, n \div 10)

\* max(1, int(np.ceil(len(sorted_nodes) * 0.1)))
hub_count(n) == Max(1, Ceil10(n))

\* the hub record of a node
HubRecord(G, nmap, node_id) ==
    [id |-> node_id,
     label |-> IF node_id \in DOMAIN nmap THEN Get(nmap[node_id], "label", node_id)
               ELSE node_id,
     degree |-> degree(G, node_id)]

\* (variant: the centrality items are not sorted)
detect_hubs_Unsorted(G, nmap) ==
    IF number_of_nodes(G) = 0 THEN <<>>
    ELSE LET sorted_nodes == degree_centrality(G)
             top == SubSeq(sorted_nodes, 1, Min(hub_count(Len(sorted_nodes)), Len(sorted_nodes)))
         IN  [i \in 1..Len(top) |-> HubRecord(G, nmap, top[i][1])]

\* detect_hubs(G, node_map)
detect_hubs(G, nmap) ==
    IF number_of_nodes(G) = 0 THEN <<>>
    ELSE LET sorted_nodes == SortDesc(degree_centrality(G))
             top == SubSeq(sorted_nodes, 1, Min(hub_count(Len(sorted_nodes)), Len(sorted_nodes)))
         IN  [i \in 1..Len(top) |-> HubRecord(G, nmap, top[i][1])]

----------------------------------------------------------------------------
(* detect_anomalies *)

\* IsolationForest is fitted only on graphs of at least 5 nodes
ForestCalled(G) == number_of_nodes(G) >= 5

\* What the forest can report: the set of nodes predicted -1 and, for each, the
\* sign-flipped decision_function value in thousandths.
ForestOutcomes(G) ==
    IF ~ForestCalled(G) THEN {[called |-> FALSE, flagged |-> {}, raw_score |-> EmptyDict]}
    ELSE UNION {{[called |-> TRUE, flagged |-> F, raw_score |-> r] :
                    r \in [F -> {1, 1500}]} : F \in SUBSET NodeSet(G)}

\* the record of a flagged node
AnomalyRecord(G, nmap, nid, raw_score) ==
    LET info == IF nid \in DOMAIN nmap THEN nmap[nid] ELSE EmptyDict
        label == Get(info, "label", nid)
        node_type == Get(info, "type", "unknown")
        edit_count == Get(info, "editCount", 0)
        deg == degree(G, nid)
        anomaly_type ==
            IF node_type = "editor" /\ edit_count > 5 THEN "prolific_editor"
            ELSE IF node_type = "article" /\ deg > 3 THEN "coordinated_edit"
            ELSE "structural_outlier"
    IN  [type |-> anomaly_type,
         score |-> Min(Max(raw_score, 0), 1000),
         details |-> <<label,
                       IF anomaly_type = "prolific_editor" THEN edit_count
                       ELSE IF anomaly_type = "coordinated_edit" THEN deg ELSE 0>>]

\* detect_anomalies(G, node_map, pagerank), forest being what the forest reported
detect_anomalies(G, nmap, pr, forest) ==
    IF number_of_nodes(G) < 5 THEN EmptyDict
    ELSE [nid \in forest.flagged |-> AnomalyRecord(G, nmap, nid, forest.raw_score[nid])]

----------------------------------------------------------------------------
(* the evaluate_* functions; rounded floats are fixed-point integers:          *)
(* round(x, 1) is in tenths, round(x, 3) in thousandths, round(x, 4) in 1e-4   *)

\* sorted(ints), ascending
RECURSIVE InsertAsc(_, _)
InsertAsc(s, x) ==
    IF s = <<>> THEN <<x>>
    ELSE IF Head(s) <= x THEN <<Head(s)>> \o InsertAsc(Tail(s), x)
    ELSE <<x>> \o s

RECURSIVE SortAsc(_)
SortAsc(s) ==
    IF s = <<>> THEN <<>> ELSE InsertAsc(SortAsc(Tail(s)), Head(s))

\* int(np.median(sizes)), sizes being sorted
MedianInt(s) ==
    IF Len(s) % 2 = 1 THEN s[(Len(s) + 1) \div 2]
    ELSE (s[Len(s) \div 2] + s[Len(s) \div 2 + 1]) \div 2

ZeroCommunityEval ==
    [modularity |-> 0, numCommunities |-> 0, coverage |-> 0,
     largestSize |-> 0, medianSize |-> 0]

\* G.degree(n, weight="weight"): a self-loop counts twice
weighted_degree(G, n) ==
    SumOver({k \in DOMAIN G.weight : n \in k},
            LAMBDA k : IF Cardinality(k) = 1 THEN 2 * G.weight[k] ELSE G.weight[k])

\* the contribution of the community c to the modularity, times deg_sum^2:
\* L_c / m - (deg_c / 2m)^2 with m = deg_sum / 2
CommunityContribution(G, c, deg_sum) ==
    Bind(SumOver(c, LAMBDA n : weighted_degree(G, n)),
         LAMBDA deg_c :
             2 * deg_sum * SumOver({k \in DOMAIN G.weight : k \subseteq c},
                                   LAMBDA k : G.weight[k])
             - deg_c * deg_c)

\* networkx modularity(G, partition, weight="weight") as the exact fraction
\* <<num, den>>
modularity(G, partition) ==
    Bind(SumOver(NodeSet(G), LAMBDA n : weighted_degree(G, n)),
         LAMBDA deg_sum :
             Frac(SumOver(partition, LAMBDA c : CommunityContribution(G, c, deg_sum)),
                  deg_sum * deg_sum))

\* the metrics of a non-empty partition; mod is its modularity and sizes the
\* sizes of its communities
CommunityMetrics(G, comm, partition, mod, sizes) ==
    [modularity |-> IF mod[2] = 0 THEN 0 ELSE RoundDiv(10000 * mod[1], mod[2]),
     numCommunities |-> Len(sizes),
     coverage |-> RoundDiv(1000 * Cardinality({k \in DOMAIN G.weight :
                                                 \A u \in k, v \in k : comm[u] = comm[v]}),
                           number_of_edges(G)),
     largestSize |-> sizes[Len(sizes)],
     medianSize |-> MedianInt(sizes)]

\* evaluate_communities(G, communities)
evaluate_communities(G, comm) ==
    IF DOMAIN comm = {} \/ number_of_edges(G) = 0 THEN ZeroCommunityEval
    ELSE Bind({{n \in DOMAIN comm \cap NodeSet(G) : comm[n] = c} :
                  c \in {comm[n] : n \in DOMAIN comm \cap NodeSet(G)}},
              LAMBDA partition :
                  IF partition = {} THEN ZeroCommunityEval
                  ELSE Bind(modularity(G, partition),
                            LAMBDA mod :
                                Bind(SortAsc([i \in 1..Cardinality(partition) |->
                                                 Cardinality(SetToSeq(partition)[i])]),
                                     LAMBDA sizes :
                                         CommunityMetrics(G, comm, partition, mod, sizes))))

ZeroPagerankEval == [gini |-> 0, entropy |-> 0, top10pct |-> 0, nodeCount |-> 0]

\* a float that is no quotient of small integers (a logarithm is in it)
Inexact == 0 - 1

\* the metrics of the sorted numerators arr, total being their sum
PagerankMetrics(arr, total) ==
    LET n == Len(arr)
        positive == Cardinality({i \in 1..n : arr[i] > 0})
        top10_count == Max(1, Ceil10(n))
        top10_sum == SumSeq(SubSeq(arr, n - top10_count + 1, n))
    IN  [gini |-> IF total > 0
                  THEN RoundDiv(10000 * SumSeq([i \in 1..n |-> (2 * i - n - 1) * arr[i]]),
                                n * total)
                  ELSE 0,
         entropy |-> IF total > 0 /\ positive > 1 THEN Inexact ELSE 0,
         top10pct |-> IF total > 0 THEN RoundDiv(1000 * top10_sum, total) ELSE 0,
         nodeCount |-> n]

\* evaluate_pagerank(pagerank); the scores of one result share their denominator,
\* which cancels in every metric
evaluate_pagerank(pr) ==
    IF DOMAIN pr = {} THEN ZeroPagerankEval
    ELSE Bind(SetToSeq(DOMAIN pr),
              LAMBDA keys :
                  Bind(SortAsc([i \in 1..Len(keys) |-> pr[keys[i]][1]]),
                       LAMBDA arr : Bind(SumSeq(arr),
                                         LAMBDA total : PagerankMetrics(arr, total))))

ZeroHubsEval == [hubCount |-> 0, maxDegree |-> 0, meanDegree |-> 0, hubConcentration |-> 0]

\* evaluate_hubs(hubs)
evaluate_hubs(hs) ==
    IF hs = <<>> THEN ZeroHubsEval
    ELSE LET degrees == [i \in 1..Len(hs) |-> hs[i].degree]
             max_degree == degrees[1]
             total_degree == SumSeq(degrees)
         IN  [hubCount |-> Len(hs),
              maxDegree |-> max_degree,
              meanDegree |-> RoundDiv(10 * total_degree, Len(degrees)),
              hubConcentration |-> IF total_degree > 0
                                   THEN RoundDiv(1000 * max_degree, total_degree) ELSE 0]

ZeroAnomalyEval ==
    [totalCount |-> 0, prolificEditors |-> 0, coordinatedEdits |-> 0, avgScore |-> 0]

\* evaluate_anomalies(anomalies)
evaluate_anomalies(an) ==
    LET entries == DOMAIN an
    IN  [totalCount |-> Cardinality(entries),
         prolificEditors |-> Cardinality({k \in entries : an[k].type = "prolific_editor"}),
         coordinatedEdits |-> Cardinality({k \in entries : an[k].type = "coordinated_edit"}),
         avgScore |-> IF entries # {}
                      THEN RoundDiv(SumOver(entries, LAMBDA k : an[k].score),
                                    Cardinality(entries))
                      ELSE 0]

----------------------------------------------------------------------------
(* analyze: POST /analyze *)

ZeroedBody ==
    [communities |-> EmptyDict, pagerank |-> EmptyDict, hubs |-> <<>>,
     anomalies |-> EmptyDict,
     evaluation |-> [community |-> ZeroCommunityEval, pagerank |-> ZeroPagerankEval,
                     hubs |-> ZeroHubsEval, anomaly |-> ZeroAnomalyEval]]

\* jsonify(...), status 200
Ok(body) == [status |-> 200, body |-> body]

\* (variant: the status of the error response is left at 200)
ErrorResponse_Ok(msg) == [status |-> 200, body |-> [error |-> msg]]

\* the except clause: jsonify({"error": str(e)}), 500
ErrorResponse(msg) == [status |-> 500, body |-> [error |-> msg]]

NotCalled == [called |-> FALSE, raised |-> FALSE]

\* the locals analyze leaves unset when it returns early
NoLocals ==
    [G_undirected |-> Unset, G_directed |-> Unset, node_map |-> Unset,
     communities |-> Unset, pagerank |-> Unset, hubs |-> Unset]

\* (variant: the threshold off by one)
ShortCircuit_Two(ns) == Len(ns) < 2

\* if len(nodes) < 3: the zeroed response is returned at once
ShortCircuit(ns) == Len(ns) < 3

\* true when the request gets past the short-circuit and build_graphs
RunsPipeline(ns, b) == ~ShortCircuit(ns) /\ ~b.raised

\* the evaluation metrics and the response, from the results of the four
\* algorithms
Assemble(ns, es, b, comm, pr, hs, an) ==
    [nodes |-> ns, edges |-> es,
     locals |-> [G_undirected |-> b.G_undirected, G_directed |-> b.G_directed,
                 node_map |-> b.node_map, communities |-> comm,
                 pagerank |-> pr, hubs |-> hs],
     exception |-> "",
     response |-> Ok([communities |-> comm, pagerank |-> pr, hubs |-> hs,
                      anomalies |-> an,
                      evaluation |->
                          [community |-> evaluate_communities(b.G_undirected, comm),
                           pagerank |-> evaluate_pagerank(pr),
                           hubs |-> evaluate_hubs(hs),
                           anomaly |-> evaluate_anomalies(an)]])]

\* detect_anomalies, which takes the scores of compute_pagerank, and the rest
WithAnomalies(ns, es, b, comm, pr, hs, forest) ==
    Assemble(ns, es, b, comm, pr, hs,
             detect_anomalies(b.G_undirected, b.node_map, pr, forest))

\* the pipeline past build_graphs (b is what build_graphs returned): the four
\* algorithms in the order of the code, then the evaluation and the response
Pipeline(ns, es, b, louv, out, forest) ==
    Bind(detect_communities(b.G_undirected, louv),
         LAMBDA comm :
             Bind(compute_pagerank(b.G_directed, out),
                  LAMBDA pr :
                      Bind(detect_hubs(b.G_undirected, b.node_map),
                           LAMBDA hs : WithAnomalies(ns, es, b, comm, pr, hs, forest))))

\* analyze() on the node list ns and the edge list es of the payload; b is what
\* build_graphs(ns, es) does, louv, out and forest what the three library calls
\* do.  The result holds the locals and the response.
analyze(ns, es, b, louv, out, forest) ==
    IF ShortCircuit(ns)
    THEN [nodes |-> ns, edges |-> es, locals |-> NoLocals, exception |-> "",
          response |-> Ok(ZeroedBody)]
    ELSE IF b.raised
    THEN [nodes |-> ns, edges |-> es, locals |-> NoLocals, exception |-> b.error,
          response |-> ErrorResponse(b.error)]
    ELSE Pipeline(ns, es, b, louv, out, forest)

----------------------------------------------------------------------------
(* The service: a request arrives, analyze answers it, the response leaves *)

NodeLists == SeqsUpTo(NodeRecordsOver(Ids), MaxNodes)

\* the edge records of the requests: a bipartite edge for every pair of
\* distinct nodes, a self-loop, a weighted coedit edge, an edge of unknown view,
\* and the malformed ones
RequestEdges ==
    {e \in {[source |-> s, target |-> t] : s \in Ids, t \in Ids} : e.source < e.target}
    \cup {[source |-> 1, target |-> 1],
          [source |-> 3, target |-> 2, weight |-> 2, view |-> "coedit"],
          [source |-> 2, target |-> 1, view |-> "other"]}
    \cup MalformedEdges

EdgeLists == SeqsUpTo(RequestEdges, MaxEdges)

\* the payloads: "nodes" and "edges" are optional
Requests ==
    {[nodes |-> ns, edges |-> es] : ns \in NodeLists, es \in EdgeLists}
    \cup {[nodes |-> ns] : ns \in NodeLists}
    \cup {[edges |-> es] : es \in EdgeLists}

Init ==
    /\ pc = "idle"
    /\ called = NoCall
    /\ data = Unset
    /\ nodes = Unset
    /\ edges = Unset
    /\ G_undirected = Unset
    /\ G_directed = Unset
    /\ node_map = Unset
    /\ communities = Unset
    /\ pagerank = Unset
    /\ hubs = Unset
    /\ lib = Unset
    /\ exception = ""
    /\ response = Unset

Receive ==
    /\ pc = "idle"
    /\ \E d \in Requests : data' = d
    /\ pc' = "received"
    /\ called' = "analyze"
    /\ UNCHANGED <<nodes, edges, G_undirected, G_directed, node_map, communities,
                   pagerank, hubs, lib, exception, response>>

Analyze ==
    /\ pc = "received"
    /\ \E ns \in {Get(data, "nodes", <<>>)}, es \in {Get(data, "edges", <<>>)} :
          \E b \in {build_graphs(ns, es)} :
             \E runs \in {RunsPipeline(ns, b)} :
                \E louv \in IF runs THEN LouvainOutcomes(b.G_undirected) ELSE {NotCalled},
                   out \in IF runs THEN PagerankOutcomes(b.G_directed) ELSE {NotCalled},
                   forest \in IF runs THEN ForestOutcomes(b.G_undirected) ELSE {NotCalled} :
                   \E r \in {analyze(ns, es, b, louv, out, forest)} :
                       /\ nodes' = r.nodes
                       /\ edges' = r.edges
                       /\ G_undirected' = r.locals.G_undirected
                       /\ G_directed' = r.locals.G_directed
                       /\ node_map' = r.locals.node_map
                       /\ communities' = r.locals.communities
                       /\ pagerank' = r.locals.pagerank
                       /\ hubs' = r.locals.hubs
                       /\ lib' = [louvain |-> louv, pagerank |-> out, forest |-> forest]
                       /\ exception' = r.exception
                       /\ response' = r.response
    /\ pc' = "responded"
    /\ UNCHANGED <<called, data>>

\* the response is sent; nothing of the request is kept
Reply ==
    /\ pc = "responded"
    /\ pc' = "idle"
    /\ called' = NoCall
    /\ data' = Unset
    /\ nodes' = Unset
    /\ edges' = Unset
    /\ G_undirected' = Unset
    /\ G_directed' = Unset
    /\ node_map' = Unset
    /\ communities' = Unset
    /\ pagerank' = Unset
    /\ hubs' = Unset
    /\ lib' = Unset
    /\ exception' = ""
    /\ response' = Unset

Next == Receive \/ Analyze \/ Reply

Spec == Init /\ [][Next]_vars

----------------------------------------------------------------------------
(* The functions called directly, one call at a time, as a test would *)

\* build_graphs takes any node list and any edge list
FnNodeLists == SeqsUpTo(NodeRecordsOver(1..2), MaxFnNodes)
FnEdgeLists == SeqsUpTo(WellFormedEdges(1..2) \cup MalformedEdges, MaxFnEdges)

\* the first k nodes, all declared
Declared(k) == [i \in 1..k |-> Node(i)]

\* an edge for every pair of the nodes of I, self-loops too
PairEdges(I) ==
    {e \in {[source |-> s, target |-> t] : s \in I, t \in I} : e.source <= e.target}

\* the graphs handed to detect_communities: what build_graphs makes of up to
\* MaxGraphNodes declared nodes and a few edges between them
CommunityGraphs ==
    {build_graphs(Declared(k), es) :
        k \in 0..MaxGraphNodes,
        es \in SeqsUpTo(PairEdges(1..MaxGraphNodes), MaxFnEdges)}

\* the graphs handed to compute_pagerank: up to MaxGraphNodes declared nodes
\* and at most one edge, bipartite or coedit
PagerankGraphs ==
    {build_graphs(Declared(k), es) :
        k \in 0..MaxGraphNodes,
        es \in {<<>>} \cup {<<e>> : e \in PairEdges(1..MaxGraphNodes)}
                      \cup {<<[source |-> 2, target |-> 1, view |-> "coedit"]>>}}

\* the graphs handed to detect_hubs: more nodes, edges between the first few
HubGraphs ==
    {build_graphs(Declared(k), es) :
        k \in 0..MaxHubNodes,
        es \in SeqsUpTo({[source |-> s, target |-> t] : s \in Ids, t \in Ids}, MaxFnEdges)}

CallBuildGraphs ==
    /\ pc = "idle"
    /\ called' = "build_graphs"
    /\ \E ns \in FnNodeLists, es \in FnEdgeLists :
          \E b \in {build_graphs(ns, es)} :
              /\ nodes' = ns
              /\ edges' = es
              /\ exception' = b.error
              /\ G_undirected' = IF b.raised THEN Unset ELSE b.G_undirected
              /\ G_directed' = IF b.raised THEN Unset ELSE b.G_directed
              /\ node_map' = IF b.raised THEN Unset ELSE b.node_map
    /\ pc' = "returned"
    /\ UNCHANGED <<data, communities, pagerank, hubs, lib, response>>

CallDetectCommunities ==
    /\ pc = "idle"
    /\ called' = "detect_communities"
    /\ \E b \in CommunityGraphs :
          \E louv \in LouvainOutcomes(b.G_undirected) :
              /\ G_undirected' = b.G_undirected
              /\ communities' = detect_communities(b.G_undirected, louv)
              /\ lib' = [louvain |-> louv, pagerank |-> NotCalled, forest |-> NotCalled]
    /\ pc' = "returned"
    /\ UNCHANGED <<data, nodes, edges, G_directed, node_map, pagerank, hubs,
                   exception, response>>

CallComputePagerank ==
    /\ pc = "idle"
    /\ called' = "compute_pagerank"
    /\ \E b \in PagerankGraphs :
          \E out \in PagerankOutcomes(b.G_directed) :
              /\ G_directed' = b.G_directed
              /\ pagerank' = compute_pagerank(b.G_directed, out)
              /\ lib' = [louvain |-> NotCalled, pagerank |-> out, forest |-> NotCalled]
    /\ pc' = "returned"
    /\ UNCHANGED <<data, nodes, edges, G_undirected, node_map, communities, hubs,
                   exception, response>>

CallDetectHubs ==
    /\ pc = "idle"
    /\ called' = "detect_hubs"
    /\ \E b \in HubGraphs :
          /\ G_undirected' = b.G_undirected
          /\ node_map' = b.node_map
          /\ hubs' = detect_hubs(b.G_undirected, b.node_map)
    /\ pc' = "returned"
    /\ UNCHANGED <<data, nodes, edges, G_directed, communities, pagerank, lib,
                   exception, response>>

\* the call is over; nothing of it is kept
Return ==
    /\ pc = "returned"
    /\ pc' = "idle"
    /\ called' = NoCall
    /\ data' = Unset
    /\ nodes' = Unset
    /\ edges' = Unset
    /\ G_undirected' = Unset
    /\ G_directed' = Unset
    /\ node_map' = Unset
    /\ communities' = Unset
    /\ pagerank' = Unset
    /\ hubs' = Unset
    /\ lib' = Unset
    /\ exception' = ""
    /\ response' = Unset

NextFn ==
    \/ CallBuildGraphs
    \/ CallDetectCommunities
    \/ CallComputePagerank
    \/ CallDetectHubs
    \/ Return

SpecFn == Init /\ [][NextFn]_vars

----------------------------------------------------------------------------
(* Properties *)

Responded == pc = "responded"
Returned(f) == pc = "returned" /\ called = f
BuiltOk == Returned("build_graphs") /\ exception = ""

\* the input edges whose view puts them into the undirected view
QualifyingEdges(es) ==
    {i \in DOMAIN es : Get(es[i], "view", "bipartite") \in {"bipartite", "coedit"}}

\* the input edges whose view puts them into the directed view
BipartiteEdges(es) ==
    {i \in DOMAIN es : Get(es[i], "view", "bipartite") = "bipartite"}

Between(es, i, u, v) == {es[i]["source"], es[i]["target"]} = {u, v}

Endpoints(es, I) == {es[i]["source"] : i \in I} \cup {es[i]["target"] : i \in I}

DeclaredIds(ns) == {ns[i]["id"] : i \in DOMAIN ns}

\* a record without id, or an edge without source or without target
Malformed(ns, es) ==
    \/ \E i \in DOMAIN ns : "id" \notin DOMAIN ns[i]
    \/ \E i \in DOMAIN es : "source" \notin DOMAIN es[i] \/ "target" \notin DOMAIN es[i]

ResultKeys == {"communities", "pagerank", "hubs", "anomalies", "evaluation"}

IsZeroed(r) == r.status = 200 /\ DOMAIN r.body = ResultKeys /\ r.body = ZeroedBody

IsError(r) == r.status = 500 /\ DOMAIN r.body = {"error"}

\* a success response that carries the results of a pipeline run
IsFullResult(r) ==
    /\ r.status = 200
    /\ DOMAIN r.body = ResultKeys
    /\ r.body.communities = communities
    /\ r.body.pagerank = pagerank
    /\ r.body.hubs = hubs
    /\ r.body.hubs # <<>>
    /\ DOMAIN r.body.evaluation = {"community", "pagerank", "hubs", "anomaly"}

\* C1: a request whose node list has fewer than 3 entries is answered with the
\* fixed zeroed response, whatever its edges and node records contain.
C1_ZeroedBelowThree ==
    (Responded /\ Len(nodes) < 3) => IsZeroed(response)

C1_Witness ==
    /\ Responded
    /\ Len(nodes) = 2
    /\ \E i \in DOMAIN nodes : "id" \notin DOMAIN nodes[i]
    /\ \E i \in DOMAIN edges : "source" \notin DOMAIN edges[i]
    /\ IsZeroed(response)

\* C2: after build_graphs the weight of the undirected edge u-v is the sum of
\* the weights (default 1) of the bipartite and coedit input edges between u and
\* v in either orientation, there is no edge when there is no such input edge,
\* and every permutation of the edge list gives the same weights.
C2_UndirectedWeightSum ==
    BuiltOk =>
        /\ \A u \in Ids, v \in Ids :
              LET Q == {i \in QualifyingEdges(edges) : Between(edges, i, u, v)}
              IN  IF Q = {} THEN ~has_edge(G_undirected, UKey(u, v))
                  ELSE /\ has_edge(G_undirected, UKey(u, v))
                       /\ G_undirected.weight[UKey(u, v)]
                              = SumOver(Q, LAMBDA i : Get(edges[i], "weight", 1))
        /\ \A k \in DOMAIN G_undirected.weight : k \in {{u, v} : u \in Ids, v \in Ids}
        /\ \A p \in Permutations(DOMAIN edges) :
              build_graphs(nodes, [i \in DOMAIN edges |-> edges[p[i]]]).G_undirected.weight
                  = G_undirected.weight

C2_Witness ==
    /\ BuiltOk
    /\ Len(edges) = 2
    /\ edges[1]["source"] = edges[2]["target"]
    /\ edges[1]["target"] = edges[2]["source"]
    /\ edges[1]["source"] # edges[1]["target"]
    /\ Get(edges[1], "view", "none") = "coedit"
    /\ "view" \notin DOMAIN edges[2]
    /\ "weight" \notin DOMAIN edges[1]
    /\ Get(edges[2], "weight", 0) = 2
    /\ G_undirected.weight[{edges[1]["source"], edges[1]["target"]}] = 3

\* C3: after build_graphs the directed view has the edge (u, v) exactly when
\* some bipartite input edge joins u and v in either direction; a pair joined
\* only by coedit or unknown-view edges has no directed edge.
C3_DirectedIffBipartite ==
    BuiltOk =>
        /\ \A u \in Ids, v \in Ids :
              has_edge(G_directed, DKey(u, v))
                  <=> \E i \in BipartiteEdges(edges) : Between(edges, i, u, v)
        /\ DOMAIN G_directed.weight \subseteq Ids \X Ids

C3_Witness ==
    /\ BuiltOk
    /\ Len(edges) = 2
    /\ Get(edges[1], "view", "bipartite") = "coedit"
    /\ Get(edges[2], "view", "bipartite") = "bipartite"
    /\ ~Between(edges, 2, edges[1]["source"], edges[1]["target"])
    /\ edges[2]["source"] # edges[2]["target"]
    /\ has_edge(G_directed, DKey(edges[2]["target"], edges[2]["source"]))
    /\ ~has_edge(G_directed, DKey(edges[1]["source"], edges[1]["target"]))
    /\ has_edge(G_undirected, UKey(edges[1]["source"], edges[1]["target"]))

\* C4 as stated: the node sets of both views are exactly the declared node ids;
\* an edge with an undeclared endpoint creates no node.
C4_NodeSetIsDeclared ==
    BuiltOk =>
        /\ NodeSet(G_undirected) = DeclaredIds(nodes)
        /\ NodeSet(G_directed) = DeclaredIds(nodes)

\* C4 as the code has it: every declared node is in both views, even with no
\* edge; besides them the undirected view holds the endpoints of the bipartite
\* and coedit input edges and the directed view the endpoints of the bipartite
\* ones, declared or not; nothing else is a node.
C4_NodeSetWithEndpoints ==
    BuiltOk =>
        /\ NodeSet(G_undirected)
               = DeclaredIds(nodes) \cup Endpoints(edges, QualifyingEdges(edges))
        /\ NodeSet(G_directed)
               = DeclaredIds(nodes) \cup Endpoints(edges, BipartiteEdges(edges))
        /\ DOMAIN node_map = DeclaredIds(nodes)

C4_Witness ==
    /\ BuiltOk
    /\ Len(nodes) = 1
    /\ degree(G_undirected, nodes[1]["id"]) = 0
    /\ nodes[1]["id"] \in NodeSet(G_directed)
    /\ \E i \in DOMAIN edges :
          /\ Get(edges[i], "view", "bipartite") = "coedit"
          /\ edges[i]["source"] \notin DeclaredIds(nodes)
          /\ edges[i]["source"] \in NodeSet(G_undirected)
          /\ edges[i]["source"] \notin NodeSet(G_directed)

Isolated(G) == {n \in NodeSet(G) : degree(G, n) = 0}

Injective(f) == \A a \in DOMAIN f, b \in DOMAIN f : f[a] = f[b] => a = b

\* C5 as stated: on every path through detect_communities the mapping labels
\* exactly the nodes of the view, and all zero-degree nodes carry one label,
\* which is the label of no community the detection returned.
C5_IsolatedShareLabelOnEveryPath ==
    Returned("detect_communities") =>
        /\ DOMAIN communities = NodeSet(G_undirected)
        /\ \A a \in Isolated(G_undirected), b \in Isolated(G_undirected) :
              communities[a] = communities[b]
        /\ (lib.louvain.called /\ ~lib.louvain.raised) =>
              \A a \in Isolated(G_undirected) :
                  communities[a] \notin 0..(Len(lib.louvain.list) - 1)

\* C5 as the code has it: the mapping labels exactly the nodes of the view on
\* every path; when the detection fails every node gets a label of its own, so
\* zero-degree nodes do not share one; on the other paths all zero-degree nodes
\* carry one label, and after a successful detection a node of the i-th
\* community returned carries i and the zero-degree nodes carry the number of
\* communities.
C5_LabelsPerPath ==
    Returned("detect_communities") =>
        /\ DOMAIN communities = NodeSet(G_undirected)
        /\ IF lib.louvain.called /\ lib.louvain.raised
           THEN Injective(communities)
           ELSE \A a \in Isolated(G_undirected), b \in Isolated(G_undirected) :
                   communities[a] = communities[b]
        /\ (lib.louvain.called /\ ~lib.louvain.raised) =>
              /\ \A i \in DOMAIN lib.louvain.list :
                    \A n \in lib.louvain.list[i] : communities[n] = i - 1
              /\ \A a \in Isolated(G_undirected) :
                    communities[a] \notin 0..(Len(lib.louvain.list) - 1)
        /\ ~lib.louvain.called => \A n \in NodeSet(G_undirected) : communities[n] = 0

C5_Witness ==
    /\ Returned("detect_communities")
    /\ Cardinality(Isolated(G_undirected)) = 2
    /\ lib.louvain.called
    /\ ~lib.louvain.raised
    /\ Len(lib.louvain.list) = 2
    /\ \A a \in Isolated(G_undirected) : communities[a] = 2

\* the least k >= 1 with 10 * k >= n
TenthUp(n) == CHOOSE k \in 1..Max(n, 1) : 10 * k >= n /\ (k = 1 \/ 10 * (k - 1) < n)

\* C6: for a view of n >= 1 nodes detect_hubs returns max(1, ceil(n / 10))
\* records, each of a distinct node of the view, with non-increasing degree
\* fields, and no node left out has a larger degree than a node in the list;
\* for a view without nodes it returns the empty list.
C6_HubList ==
    Returned("detect_hubs") =>
        LET G == G_undirected
            n == number_of_nodes(G)
            chosen == {hubs[i].id : i \in DOMAIN hubs}
        IN  IF n = 0 THEN hubs = <<>>
            ELSE /\ Len(hubs) = TenthUp(n)
                 /\ \A i \in DOMAIN hubs, j \in DOMAIN hubs :
                       hubs[i].id = hubs[j].id => i = j
                 /\ chosen \subseteq NodeSet(G)
                 /\ \A i \in DOMAIN hubs : hubs[i].degree = degree(G, hubs[i].id)
                 /\ \A i \in DOMAIN hubs, j \in DOMAIN hubs :
                       i < j => hubs[i].degree >= hubs[j].degree
                 /\ \A m \in NodeSet(G) \ chosen :
                       \A i \in DOMAIN hubs : degree(G, m) <= hubs[i].degree

C6_Witness ==
    /\ Returned("detect_hubs")
    /\ number_of_nodes(G_undirected) = 11
    /\ Len(hubs) = 2
    /\ hubs[1].degree > hubs[2].degree
    /\ hubs[2].degree > 0
    /\ hubs[1].id # G_undirected.nodes[1]
    /\ \E m \in NodeSet(G_undirected) : degree(G_undirected, m) = 0

\* C7 as stated: every request with a node record without id, or an edge record
\* without source or target, gets the error response (status 500); every other
\* request gets the zeroed response or a full result; and the service can
\* answer the next request.
C7_MalformedAlwaysError ==
    Responded =>
        /\ Malformed(nodes, edges) => IsError(response)
        /\ ~Malformed(nodes, edges) => (IsZeroed(response) \/ IsFullResult(response))
        /\ ENABLED Reply

\* C7 as the code has it: a request of at least 3 node records with a node
\* record without id, or an edge record without source or target, gets the
\* error response (status 500); a request of fewer than 3 node records gets the
\* zeroed response even when it has such records; every other request gets a
\* full result; and the service can answer the next request.
C7_MalformedErrorFromThree ==
    Responded =>
        /\ (Len(nodes) >= 3 /\ Malformed(nodes, edges)) =>
              (IsError(response) /\ exception \in {"'id'", "'source'", "'target'"}
               /\ response.body.error = exception)
        /\ Len(nodes) < 3 => IsZeroed(response)
        /\ (Len(nodes) >= 3 /\ ~Malformed(nodes, edges)) => IsFullResult(response)
        /\ ENABLED Reply

C7_Witness ==
    /\ Responded
    /\ Len(nodes) = 3
    /\ \A i \in DOMAIN nodes : "id" \in DOMAIN nodes[i]
    /\ Len(edges) = 1
    /\ "source" \in DOMAIN edges[1]
    /\ "target" \notin DOMAIN edges[1]
    /\ IsError(response)
    /\ response.body.error = "'target'"

\* C8: compute_pagerank returns a score for exactly the nodes of the view, every
\* score in [0, 1]; a result that is not empty and not all zero is every raw
\* score divided by the largest, so its maximum is exactly 1; raw scores that
\* are all 0 are returned unchanged; an empty view gives the empty mapping.
C8_PagerankNormalised ==
    Returned("compute_pagerank") =>
        LET out == lib.pagerank
            raw == out.pr
        IN  /\ DOMAIN pagerank = NodeSet(G_directed)
            /\ \A n \in DOMAIN pagerank :
                  0 <= pagerank[n][1] /\ pagerank[n][1] <= pagerank[n][2]
            /\ number_of_nodes(G_directed) = 0 => pagerank = EmptyDict
            /\ (out.called /\ ~out.raised) =>
                  IF \A n \in DOMAIN raw : raw[n] = 0
                  THEN \A n \in DOMAIN raw : pagerank[n] = <<raw[n], 1>>
                  ELSE /\ \E n \in DOMAIN pagerank : pagerank[n][1] = pagerank[n][2]
                       /\ \A n \in DOMAIN pagerank, m \in DOMAIN raw :
                             (\A k \in DOMAIN raw : raw[k] <= raw[m]) =>
                                 pagerank[n] = <<raw[n], raw[m]>>

C8_Witness ==
    /\ Returned("compute_pagerank")
    /\ lib.pagerank.called
    /\ ~lib.pagerank.raised
    /\ \E n \in DOMAIN pagerank : pagerank[n] = <<1, 2>>
    /\ \E n \in DOMAIN pagerank : pagerank[n] = <<2, 2>>
    /\ \E n \in DOMAIN pagerank : pagerank[n] = <<0, 2>>

\* C9: for a request of at least 3 well-formed nodes a failure of the community
\* detection or of the influence propagation never gives the error response:
\* after a detection failure every node of the view has its own label, after an
\* influence failure every node has score 0, and either way analyze runs the
\* remaining stages and returns a success response with communities, pagerank,
\* hubs, anomalies and evaluation.
C9_LibraryFailureRecovered ==
    (Responded /\ (lib.louvain.raised \/ lib.pagerank.raised)) =>
        /\ IsFullResult(response)
        /\ lib.louvain.raised =>
              /\ DOMAIN response.body.communities = NodeSet(G_undirected)
              /\ Injective(response.body.communities)
        /\ lib.pagerank.raised =>
              /\ DOMAIN response.body.pagerank = NodeSet(G_directed)
              /\ \A n \in NodeSet(G_directed) : response.body.pagerank[n] = <<0, 1>>
        /\ Len(response.body.hubs) >= 1
        /\ \A i \in DOMAIN response.body.hubs :
              response.body.hubs[i].id \in NodeSet(G_undirected)
        /\ DOMAIN response.body.anomalies \subseteq NodeSet(G_undirected)
        /\ response.body.evaluation.pagerank.nodeCount = number_of_nodes(G_directed)

C9_Witness ==
    /\ Responded
    /\ lib.louvain.called
    /\ lib.louvain.raised
    /\ lib.pagerank.raised
    /\ number_of_nodes(G_undirected) = 3
    /\ IsFullResult(response)

\* C10: after a full pipeline run evaluation.hubs.maxDegree is the largest
\* degree over the nodes of the undirected view and evaluation.hubs.hubCount is
\* the length of the hubs list of the same response.
C10_MaxDegreeAndHubCount ==
    (Responded /\ Len(nodes) >= 3 /\ response.status = 200) =>
        /\ \A n \in NodeSet(G_undirected) :
              degree(G_undirected, n) <= response.body.evaluation.hubs.maxDegree
        /\ \E n \in NodeSet(G_undirected) :
              degree(G_undirected, n) = response.body.evaluation.hubs.maxDegree
        /\ response.body.evaluation.hubs.hubCount = Len(response.body.hubs)

C10_Witness ==
    /\ Responded
    /\ Len(nodes) >= 3
    /\ response.status = 200
    /\ response.body.evaluation.hubs.maxDegree = 2
    /\ degree(G_undirected, G_undirected.nodes[1]) = 0
    /\ response.body.hubs[1].id = G_undirected.nodes[2]

====
